---- MODULE Spec2Model ----
(***************************************************************************)
(* Reservation-and-stock-ledger core of the inventory service              *)
(* (inventory_manager.py, class InventoryService).                         *)
(*                                                                         *)
(* The service is asyncio code: a coroutine runs atomically from one await *)
(* that suspends to the next.  Every await of a database helper is such a  *)
(* point, so each handler is cut into steps: one step is the local code    *)
(* that runs after a resumption together with the database operation it    *)
(* issues next.  The service takes no lock and opens no transaction.       *)
(*                                                                         *)
(* The database helpers are placeholders or absent in the source; the      *)
(* store behind them (stock records, reservation records) is modelled from *)
(* the specification's StockLedger.  What is passed to the helpers, in     *)
(* which order, and what happens on an exception is taken from the source. *)
(***************************************************************************)
EXTENDS Integers, Sequences, FiniteSets, Bags, TLC

(* ------------------------------ bounds -------------------------------- *)

\* number of API calls made in one behaviour
MaxCalls == 3
\* the clock runs 0..MaxTime
MaxTime == 2
\* largest quantity a caller asks for
MaxQty == 2
\* number of database operations that may raise in one behaviour
MaxFaults == 1
\* number of update_stock_level calls made in one behaviour
MaxMoves == 2
\* number of database or cache operations of update_stock_level that may
\* raise in one behaviour
MaxDbErrors == 1
MaxAvailable == 5
MaxReorderPoint == 5

(* ------------------------- provisioned data --------------------------- *)

Items == {"X"}
\* warehouses in their fixed order (warehouse_config of main())
WhOrder == <<"WH001", "WH002">>
Warehouses == {WhOrder[k] : k \in 1..Len(WhOrder)}
Keys == Items \X Warehouses

RIds == 1..MaxCalls

Min(a, b) == IF a < b THEN a ELSE b

RECURSIVE SumOver(_, _)
SumOver(f, S) ==
  IF S = {} THEN 0
  ELSE LET x == CHOOSE y \in S : TRUE IN f[x] + SumOver(f, S \ {x})

(* --------------------------- InventoryStatus --------------------------- *)

determine_inventory_status_below(available_quantity, reorder_point) ==
  IF available_quantity <= 0 THEN "out_of_stock"
  ELSE IF available_quantity < reorder_point THEN "low_stock"
  ELSE "in_stock"

determine_inventory_status(available_quantity, reorder_point) ==
  IF available_quantity <= 0 THEN "out_of_stock"
  ELSE IF available_quantity <= reorder_point THEN "low_stock"
  ELSE "in_stock"

(* ------------------------ the store (StockLedger) ---------------------- *)

\* a stock record as provisioned: nothing reserved
Provision(total, reorder_point) ==
  [available_quantity |-> total, reserved_quantity |-> 0,
   total_quantity |-> total, reorder_point |-> reorder_point,
   status |-> determine_inventory_status(total, reorder_point)]

InitialInventory ==
  [k \in Keys |->
     IF k[2] = "WH001" THEN Provision(2, 1) ELSE Provision(1, 1)]

\* _get_inventory_items(product_id): the product's records
TotalAvailable(inv, p) ==
  SumOver([w \in Warehouses |-> inv[<<p, w>>].available_quantity], Warehouses)
TotalReserved(inv, p) ==
  SumOver([w \in Warehouses |-> inv[<<p, w>>].reserved_quantity], Warehouses)
TotalQuantity(inv, p) ==
  SumOver([w \in Warehouses |-> inv[<<p, w>>].total_quantity], Warehouses)
\* the product's quantities over all its warehouses
Totals(inv, p) ==
  [available |-> TotalAvailable(inv, p), reserved |-> TotalReserved(inv, p),
   total |-> TotalQuantity(inv, p)]

NonNegative(inv) ==
  \A k \in DOMAIN inv : /\ inv[k].available_quantity >= 0
                        /\ inv[k].reserved_quantity >= 0
                        /\ inv[k].total_quantity >= 0

\* reserve: move q from available to reserved, warehouse by warehouse
RECURSIVE LedgerReserve(_, _, _, _)
LedgerReserve(inv, p, q, k) ==
  IF k > Len(WhOrder) THEN inv
  ELSE LET key == <<p, WhOrder[k]>>
           x == Min(inv[key].available_quantity, q)
       IN LedgerReserve([inv EXCEPT ![key].available_quantity = @ - x,
                                    ![key].reserved_quantity = @ + x],
                        p, q - x, k + 1)

\* release: move q from reserved back to available, warehouse by warehouse
RECURSIVE LedgerRelease(_, _, _, _)
LedgerRelease(inv, p, q, k) ==
  IF k > Len(WhOrder) THEN inv
  ELSE LET key == <<p, WhOrder[k]>>
           x == Min(inv[key].reserved_quantity, q)
       IN LedgerRelease([inv EXCEPT ![key].reserved_quantity = @ - x,
                                    ![key].available_quantity = @ + x],
                        p, q - x, k + 1)

\* allocate: remove q from reserved and from total, warehouse by warehouse
RECURSIVE LedgerAllocate(_, _, _, _)
LedgerAllocate(inv, p, q, k) ==
  IF k > Len(WhOrder) THEN inv
  ELSE LET key == <<p, WhOrder[k]>>
           x == Min(inv[key].reserved_quantity, q)
       IN LedgerAllocate([inv EXCEPT ![key].reserved_quantity = @ - x,
                                     ![key].total_quantity = @ - x],
                         p, q - x, k + 1)

\* _update_inventory_for_reservation(product_id, quantity, is_reserve):
\* the stock records after the update
update_inventory_for_reservation(inv, p, q, is_reserve) ==
  IF is_reserve THEN LedgerReserve(inv, p, q, 1) ELSE LedgerRelease(inv, p, q, 1)

\* the store refuses an update that would leave a quantity negative
\* (InvalidState, nothing persisted)
update_inventory_for_reservation_ok(inv, p, q, is_reserve) ==
  /\ IF is_reserve THEN TotalAvailable(inv, p) >= q ELSE TotalReserved(inv, p) >= q
  /\ NonNegative(update_inventory_for_reservation(inv, p, q, is_reserve))

\* _confirm_inventory_allocation(product_id, quantity)
confirm_inventory_allocation(inv, p, q) == LedgerAllocate(inv, p, q, 1)

confirm_inventory_allocation_ok(inv, p, q) ==
  /\ TotalReserved(inv, p) >= q
  /\ NonNegative(confirm_inventory_allocation(inv, p, q))

\* _update_inventory_quantities(product_id, warehouse_id, new_total, new_available, reason)
update_inventory_quantities(inv, p, w, new_total, new_available) ==
  [inv EXCEPT ![<<p, w>>].total_quantity = new_total,
              ![<<p, w>>].available_quantity = new_available]

\* _update_inventory_status(product_id, warehouse_id, new_status)
update_inventory_status(inv, p, w, new_status) ==
  [inv EXCEPT ![<<p, w>>].status = new_status]

(* ------------------------------- state -------------------------------- *)

VARIABLES
  now,                  \* datetime.now()
  inventory,            \* the store's stock records, by (product, warehouse)
  reservation_records,  \* the store's reservation records, by reservation id
  active_reservations,  \* self.active_reservations
  tasks,                \* the coroutines in flight (API calls, expiry tasks): a bag of frames
  returned,             \* the calls that have returned, with their outcome
  nCalls,               \* API calls made so far
  nextRid,              \* reservation ids generated so far (uuid.uuid4)
  faults,               \* database operations that raised so far
  reorders,             \* reorder requests emitted, counted by (product, warehouse)
  settled,              \* history: releases and allocations applied, by reservation id
  last                  \* history: the last update of the stock records

\* the state of the stock-level service (inventory_management_service.py)
VARIABLES
  stock_levels,         \* table stock_levels, committed rows, by warehouse
  stock_movements,      \* table stock_movements, committed rows: a bag
  purchase_orders,      \* purchase-order requests created: a bag
  events,               \* events sent to the inventory_events topic: a bag
  stock_cache,          \* the stock:<item>:<warehouse> keys present in the cache
  moves,                \* the update_stock_level calls in flight: a bag of frames
  responses,            \* the update_stock_level calls that have ended, with their outcome
  nMoves,               \* update_stock_level calls made so far
  db_errors             \* database or cache operations that raised so far

VARIABLES
  status_call,          \* a call of _determine_inventory_status: arguments and result
  availability_call     \* a call of check_availability: arguments and result

service_vars == <<now, inventory, reservation_records, active_reservations,
                  tasks, returned, nCalls, nextRid, faults, reorders, settled,
                  last>>
movement_vars == <<stock_levels, stock_movements, purchase_orders, events,
                   stock_cache, moves, responses, nMoves, db_errors>>
status_vars == <<status_call, availability_call>>

vars == <<now, inventory, reservation_records, active_reservations, tasks,
          returned, nCalls, nextRid, faults, reorders, settled, last,
          stock_levels, stock_movements, purchase_orders, events, stock_cache,
          moves, responses, nMoves, db_errors, status_call,
          availability_call>>

\* the rows of stock_levels as provisioned: WH001 has 1 of its 2 on hand
\* allocated to orders, WH002 has nothing allocated
InitialStockLevels ==
  [w \in Warehouses |->
     IF w = "WH001"
       THEN [quantity_on_hand |-> 2, quantity_available |-> 1, quantity_allocated |-> 1]
       ELSE [quantity_on_hand |-> 1, quantity_available |-> 1, quantity_allocated |-> 0]]

\* the frame of a coroutine: its arguments and locals
Frame ==
  [op |-> "none", pc |-> "start", product_id |-> "-", warehouse_id |-> "-",
   quantity |-> 0, expiry_time |-> 0, reservation_id |-> 0,
   is_available |-> FALSE, read_total |-> 0, read_available |-> 0,
   quantity_change |-> 0, called_at |-> 0, after_true |-> FALSE]

NoUpdate ==
  [kind |-> "none", product_id |-> "-", reservation_id |-> 0, quantity |-> 0,
   pre |-> [available |-> 0, reserved |-> 0, total |-> 0],
   follows_reserve |-> FALSE,
   pre_reserve |-> [available |-> 0, reserved |-> 0, total |-> 0]]

\* no call of _determine_inventory_status has been made
NoStatusCall == [available_quantity |-> 0, reorder_point |-> 0, result |-> "none"]

\* no call of check_availability has been made
NoAvailabilityCall ==
  [product_id |-> "-", quantity |-> 0, warehouse_id |-> "None",
   result |-> "none", raised |-> FALSE]

\* the service as constructed, over the stock records inv
ServiceInitWith(inv) ==
  /\ now = 0
  /\ inventory = inv
  /\ reservation_records = << >>
  /\ active_reservations = << >>
  /\ tasks = EmptyBag
  /\ returned = {}
  /\ nCalls = 0
  /\ nextRid = 0
  /\ faults = 0
  /\ reorders = [k \in DOMAIN inv |-> 0]
  /\ settled = [r \in RIds |-> 0]
  /\ last = NoUpdate
  /\ stock_levels = InitialStockLevels
  /\ stock_movements = EmptyBag
  /\ purchase_orders = EmptyBag
  /\ events = EmptyBag
  /\ stock_cache = DOMAIN InitialStockLevels
  /\ moves = EmptyBag
  /\ responses = {}
  /\ nMoves = 0
  /\ db_errors = 0

ServiceInit == ServiceInitWith(InitialInventory)

Init ==
  /\ ServiceInit
  /\ status_call = NoStatusCall
  /\ availability_call = NoAvailabilityCall

(* ------------------------------ helpers ------------------------------- *)

Frames == BagToSet(tasks)
One(f) == SetToBag({f})

\* every entry is removed in the place of the one named
Drop_every_entry(f, r) == [k \in {} |-> f[k]]

Drop(f, r) == [k \in DOMAIN f \ {r} |-> f[k]]

\* what is kept of a call that has returned (or raised) `res`; the
\* arguments of a rejected request are kept with it
Outcome(rec, res) ==
  LET rejected == res \in {"ValueError:quantity", "ValueError:expiry"} IN
    [op |-> rec.op, reservation_id |-> rec.reservation_id, result |-> res,
     after_true |-> rec.after_true,
     quantity |-> IF rejected THEN rec.quantity ELSE 0,
     expiry_time |-> IF res = "ValueError:expiry" THEN rec.expiry_time ELSE 0,
     called_at |-> IF res = "ValueError:expiry" THEN rec.called_at ELSE 0]

\* the coroutine whose frames `old` holds goes on with frame g
Go(old, g) ==
  /\ tasks' = (tasks (-) old) (+) One(g)
  /\ UNCHANGED returned

\* the coroutine whose frames `old` holds returns res
Ret(old, rec, res) ==
  /\ tasks' = tasks (-) old
  /\ returned' = returned \cup {Outcome(rec, res)}

\* a database operation raises: at most MaxFaults times in a behaviour
Fault == faults < MaxFaults /\ faults' = faults + 1

\* the last update of the stock records, for the history
Update(kind, p, rid, q) ==
  [kind |-> kind, product_id |-> p, reservation_id |-> rid, quantity |-> q,
   pre |-> Totals(inventory, p),
   follows_reserve |-> (kind = "release" /\ last.kind = "reserve"
                        /\ last.reservation_id = rid),
   pre_reserve |-> IF kind = "release" /\ last.kind = "reserve"
                      /\ last.reservation_id = rid
                   THEN last.pre ELSE NoUpdate.pre_reserve]

\* the reservation ids a caller can name: those reserve_inventory has
\* returned, and one id (0) that was never issued
KnownIds ==
  {o.reservation_id : o \in {x \in returned : x.op = "reserve"
                                              /\ x.result = "reservation_id"}}
    \cup {0}

\* an earlier confirm or cancel of this reservation has returned True
AfterTrue(rid) ==
  \E o \in returned : /\ o.op \in {"cancel", "confirm"}
                      /\ o.reservation_id = rid
                      /\ o.result = "True"

(* --------------------------- reserve_inventory ------------------------ *)

\* check_availability with line 123 testing `total_available > 0`
ReserveCall_any_stock(p, q, e) ==
  /\ nCalls < MaxCalls
  /\ nCalls' = nCalls + 1
  /\ LET call == [Frame EXCEPT !.op = "reserve", !.product_id = p,
                               !.quantity = q, !.expiry_time = e,
                               !.called_at = now]
     IN IF q <= 0
          THEN Ret(EmptyBag, call, "ValueError:quantity") /\ UNCHANGED faults
        ELSE IF e <= now
          THEN Ret(EmptyBag, call, "ValueError:expiry") /\ UNCHANGED faults
        ELSE \/ /\ Go(EmptyBag, [call EXCEPT !.pc = "r_checked",
                        !.is_available = (TotalAvailable(inventory, p) > 0)])
                /\ UNCHANGED faults
             \/ /\ Fault
                /\ Go(EmptyBag, [call EXCEPT !.pc = "r_checked",
                                             !.is_available = FALSE])
  /\ UNCHANGED <<now, inventory, reservation_records, active_reservations,
                 nextRid, reorders, settled, last>>

\* reserve_inventory with line 159 testing `quantity < 0`
ReserveCall_accepts_zero(p, q, e) ==
  /\ nCalls < MaxCalls
  /\ nCalls' = nCalls + 1
  /\ LET call == [Frame EXCEPT !.op = "reserve", !.product_id = p,
                               !.quantity = q, !.expiry_time = e,
                               !.called_at = now]
     IN IF q < 0
          THEN Ret(EmptyBag, call, "ValueError:quantity") /\ UNCHANGED faults
        ELSE IF e <= now
          THEN Ret(EmptyBag, call, "ValueError:expiry") /\ UNCHANGED faults
        ELSE \/ /\ Go(EmptyBag, [call EXCEPT !.pc = "r_checked",
                        !.is_available = (TotalAvailable(inventory, p) >= q)])
                /\ UNCHANGED faults
             \/ /\ Fault
                /\ Go(EmptyBag, [call EXCEPT !.pc = "r_checked",
                                             !.is_available = FALSE])
  /\ UNCHANGED <<now, inventory, reservation_records, active_reservations,
                 nextRid, reorders, settled, last>>

\* lines 158-167: validate the request, then read the product's records
\* (check_availability; its except clause answers False)
ReserveCall(p, q, e) ==
  /\ nCalls < MaxCalls
  /\ nCalls' = nCalls + 1
  /\ LET call == [Frame EXCEPT !.op = "reserve", !.product_id = p,
                               !.quantity = q, !.expiry_time = e,
                               !.called_at = now]
     IN IF q <= 0
          THEN Ret(EmptyBag, call, "ValueError:quantity") /\ UNCHANGED faults
        ELSE IF e <= now
          THEN Ret(EmptyBag, call, "ValueError:expiry") /\ UNCHANGED faults
        ELSE \/ /\ Go(EmptyBag, [call EXCEPT !.pc = "r_checked",
                        !.is_available = (TotalAvailable(inventory, p) >= q)])
                /\ UNCHANGED faults
             \/ /\ Fault
                /\ Go(EmptyBag, [call EXCEPT !.pc = "r_checked",
                                             !.is_available = FALSE])
  /\ UNCHANGED <<now, inventory, reservation_records, active_reservations,
                 nextRid, reorders, settled, last>>

\* lines 168-170: not available
ReserveInsufficient(f) ==
  /\ f.pc = "r_checked"
  /\ ~f.is_available
  /\ Ret(One(f), f, "InsufficientInventoryError")
  /\ UNCHANGED <<now, inventory, reservation_records, active_reservations,
                 nCalls, nextRid, faults, reorders, settled, last>>

\* lines 172-177: generate the id, create the reservation record
ReserveCreateRecord(f) ==
  /\ f.pc = "r_checked"
  /\ f.is_available
  /\ nextRid' = nextRid + 1
  /\ LET rid == nextRid + 1 IN
       \/ /\ reservation_records' = reservation_records @@
               (rid :> [product_id |-> f.product_id, quantity |-> f.quantity,
                        expiry_time |-> f.expiry_time, status |-> "PENDING"])
          /\ Go(One(f), [f EXCEPT !.pc = "r_record", !.reservation_id = rid])
          /\ UNCHANGED faults
       \/ /\ Fault
          /\ Go(One(f), [f EXCEPT !.pc = "r_failed", !.reservation_id = rid])
          /\ UNCHANGED reservation_records
  /\ UNCHANGED <<now, inventory, active_reservations, nCalls, reorders,
                 settled, last>>

\* lines 179-181: update the stock records for the reservation
ReserveUpdateInventory(f) ==
  /\ f.pc = "r_record"
  /\ LET p == f.product_id
         q == f.quantity
     IN \/ /\ update_inventory_for_reservation_ok(inventory, p, q, TRUE)
           /\ inventory' = update_inventory_for_reservation(inventory, p, q, TRUE)
           /\ last' = Update("reserve", p, f.reservation_id, q)
           /\ Go(One(f), [f EXCEPT !.pc = "r_updated"])
           /\ UNCHANGED faults
        \/ /\ ~update_inventory_for_reservation_ok(inventory, p, q, TRUE)
           /\ Go(One(f), [f EXCEPT !.pc = "r_failed"])
           /\ UNCHANGED <<inventory, faults, last>>
        \/ /\ Fault
           /\ Go(One(f), [f EXCEPT !.pc = "r_failed"])
           /\ UNCHANGED <<inventory, last>>
  /\ UNCHANGED <<now, reservation_records, active_reservations, nCalls,
                 nextRid, reorders, settled>>

\* reserve_inventory without lines 187-188 (no expiry task is created)
ReserveFinish_no_expiry_task(f) ==
  /\ f.pc = "r_updated"
  /\ LET rid == f.reservation_id IN
       /\ active_reservations' =
            [k \in DOMAIN active_reservations \cup {rid} |->
               IF k = rid THEN [product_id |-> f.product_id,
                                quantity |-> f.quantity,
                                expiry_time |-> f.expiry_time]
               ELSE active_reservations[k]]
       /\ Ret(One(f), f, "reservation_id")
  /\ UNCHANGED <<now, inventory, reservation_records, nCalls, nextRid,
                 faults, reorders, settled, last>>

\* lines 183-191: enter the reservation in the cache, create the expiry
\* task, return the id
ReserveFinish(f) ==
  /\ f.pc = "r_updated"
  /\ LET rid == f.reservation_id IN
       /\ active_reservations' =
            [k \in DOMAIN active_reservations \cup {rid} |->
               IF k = rid THEN [product_id |-> f.product_id,
                                quantity |-> f.quantity,
                                expiry_time |-> f.expiry_time]
               ELSE active_reservations[k]]
       /\ tasks' = (tasks (-) One(f)) (+)
            One([Frame EXCEPT !.op = "expiry", !.pc = "t_created",
                              !.reservation_id = rid,
                              !.expiry_time = f.expiry_time])
       /\ returned' = returned \cup {Outcome(f, "reservation_id")}
  /\ UNCHANGED <<now, inventory, reservation_records, nCalls, nextRid,
                 faults, reorders, settled, last>>

\* _cleanup_failed_reservation(reservation_id, reservation): the record of
\* the failed reservation is removed
cleanup_failed_reservation(records, rid) == Drop(records, rid)

\* reserve_inventory without line 196 (the cleanup is not called)
ReserveCleanup_keeps_record(f) ==
  /\ f.pc = "r_failed"
  /\ \/ /\ UNCHANGED reservation_records
        /\ Ret(One(f), f, "ReservationError")
        /\ UNCHANGED faults
     \/ /\ Fault
        /\ Ret(One(f), f, "Exception")
        /\ UNCHANGED reservation_records
  /\ UNCHANGED <<now, inventory, active_reservations, nCalls, nextRid,
                 reorders, settled, last>>

\* lines 193-197: clean up, raise ReservationError
ReserveCleanup(f) ==
  /\ f.pc = "r_failed"
  /\ \/ /\ reservation_records' =
             cleanup_failed_reservation(reservation_records, f.reservation_id)
        /\ Ret(One(f), f, "ReservationError")
        /\ UNCHANGED faults
     \/ /\ Fault
        /\ Ret(One(f), f, "Exception")
        /\ UNCHANGED reservation_records
  /\ UNCHANGED <<now, inventory, active_reservations, nCalls, nextRid,
                 reorders, settled, last>>

(* ------------------------- cancel_reservation ------------------------- *)

Bool(b) == IF b THEN "True" ELSE "False"

\* what the caller of cancel_reservation makes of its answer: the API
\* call returns it, confirm_reservation (line 226) returns False, the
\* expiry task (line 445) ends with it
CancelResult(rec, b) == IF rec.op = "confirm" THEN "False" ELSE Bool(b)

\* _update_reservation_status(reservation_id, status)
update_reservation_status(records, rid, status) ==
  IF rid \in DOMAIN records THEN [records EXCEPT ![rid].status = status]
  ELSE records

\* cancel_reservation with line 268 returning True
CancelBegin_not_found_true(old, rec) ==
  LET rid == rec.reservation_id IN
    IF rid \notin DOMAIN active_reservations
      THEN /\ Ret(old, rec, CancelResult(rec, TRUE))
           /\ UNCHANGED <<inventory, faults, settled, last>>
    ELSE LET p == active_reservations[rid].product_id
             q == active_reservations[rid].quantity
         IN \/ /\ update_inventory_for_reservation_ok(inventory, p, q, FALSE)
               /\ inventory' = update_inventory_for_reservation(inventory, p, q, FALSE)
               /\ settled' = [settled EXCEPT ![rid] = @ + 1]
               /\ last' = Update("release", p, rid, q)
               /\ Go(old, [rec EXCEPT !.pc = "x_released", !.product_id = p,
                                      !.quantity = q])
               /\ UNCHANGED faults
            \/ /\ ~update_inventory_for_reservation_ok(inventory, p, q, FALSE)
               /\ Ret(old, rec, CancelResult(rec, FALSE))
               /\ UNCHANGED <<inventory, faults, settled, last>>
            \/ /\ Fault
               /\ Ret(old, rec, CancelResult(rec, FALSE))
               /\ UNCHANGED <<inventory, settled, last>>

\* cancel_reservation with line 275 passing True (reserve) for is_reserve
CancelBegin_reserves_again(old, rec) ==
  LET rid == rec.reservation_id IN
    IF rid \notin DOMAIN active_reservations
      THEN /\ Ret(old, rec, CancelResult(rec, FALSE))
           /\ UNCHANGED <<inventory, faults, settled, last>>
    ELSE LET p == active_reservations[rid].product_id
             q == active_reservations[rid].quantity
         IN \/ /\ update_inventory_for_reservation_ok(inventory, p, q, TRUE)
               /\ inventory' = update_inventory_for_reservation(inventory, p, q, TRUE)
               /\ settled' = [settled EXCEPT ![rid] = @ + 1]
               /\ last' = Update("release", p, rid, q)
               /\ Go(old, [rec EXCEPT !.pc = "x_released", !.product_id = p,
                                      !.quantity = q])
               /\ UNCHANGED faults
            \/ /\ ~update_inventory_for_reservation_ok(inventory, p, q, TRUE)
               /\ Ret(old, rec, CancelResult(rec, FALSE))
               /\ UNCHANGED <<inventory, faults, settled, last>>
            \/ /\ Fault
               /\ Ret(old, rec, CancelResult(rec, FALSE))
               /\ UNCHANGED <<inventory, settled, last>>

\* lines 266-275, run by the coroutine whose frames `old` holds, with
\* frame rec on entry: look the reservation up, return its quantity to the
\* available stock
CancelBegin(old, rec) ==
  LET rid == rec.reservation_id IN
    IF rid \notin DOMAIN active_reservations
      THEN /\ Ret(old, rec, CancelResult(rec, FALSE))
           /\ UNCHANGED <<inventory, faults, settled, last>>
    ELSE LET p == active_reservations[rid].product_id
             q == active_reservations[rid].quantity
         IN \/ /\ update_inventory_for_reservation_ok(inventory, p, q, FALSE)
               /\ inventory' = update_inventory_for_reservation(inventory, p, q, FALSE)
               /\ settled' = [settled EXCEPT ![rid] = @ + 1]
               /\ last' = Update("release", p, rid, q)
               /\ Go(old, [rec EXCEPT !.pc = "x_released", !.product_id = p,
                                      !.quantity = q])
               /\ UNCHANGED faults
            \/ /\ ~update_inventory_for_reservation_ok(inventory, p, q, FALSE)
               /\ Ret(old, rec, CancelResult(rec, FALSE))
               /\ UNCHANGED <<inventory, faults, settled, last>>
            \/ /\ Fault
               /\ Ret(old, rec, CancelResult(rec, FALSE))
               /\ UNCHANGED <<inventory, settled, last>>

\* cancel_reservation(reservation_id) called through the API
CancelCall(rid) ==
  /\ nCalls < MaxCalls
  /\ nCalls' = nCalls + 1
  /\ CancelBegin(EmptyBag, [Frame EXCEPT !.op = "cancel", !.reservation_id = rid,
                                         !.after_true = AfterTrue(rid)])
  /\ UNCHANGED <<now, reservation_records, active_reservations, nextRid, reorders>>

\* cancel_reservation without line 278 (the cache entry stays)
CancelFinish_keeps_entry(f) ==
  /\ f.pc = "x_released"
  /\ LET rid == f.reservation_id IN
       IF rid \notin DOMAIN active_reservations
         THEN /\ Ret(One(f), f, CancelResult(f, FALSE))
              /\ UNCHANGED <<active_reservations, reservation_records, faults>>
       ELSE /\ UNCHANGED active_reservations
            /\ \/ /\ reservation_records' =
                       update_reservation_status(reservation_records, rid, "CANCELLED")
                  /\ Ret(One(f), f, CancelResult(f, TRUE))
                  /\ UNCHANGED faults
               \/ /\ Fault
                  /\ Ret(One(f), f, CancelResult(f, FALSE))
                  /\ UNCHANGED reservation_records
  /\ UNCHANGED <<now, inventory, nCalls, nextRid, reorders, settled, last>>

\* lines 277-284: delete the cache entry (KeyError when it is gone), set
\* the record's status, return True; any exception returns False
CancelFinish(f) ==
  /\ f.pc = "x_released"
  /\ LET rid == f.reservation_id IN
       IF rid \notin DOMAIN active_reservations
         THEN /\ Ret(One(f), f, CancelResult(f, FALSE))
              /\ UNCHANGED <<active_reservations, reservation_records, faults>>
       ELSE /\ active_reservations' = Drop(active_reservations, rid)
            /\ \/ /\ reservation_records' =
                       update_reservation_status(reservation_records, rid, "CANCELLED")
                  /\ Ret(One(f), f, CancelResult(f, TRUE))
                  /\ UNCHANGED faults
               \/ /\ Fault
                  /\ Ret(One(f), f, CancelResult(f, FALSE))
                  /\ UNCHANGED reservation_records
  /\ UNCHANGED <<now, inventory, nCalls, nextRid, reorders, settled, last>>

(* ------------------------- confirm_reservation ------------------------ *)

\* the reorder rule of a (product, warehouse)
reorder_rule_active(k) == TRUE

\* _check_reorder_triggers(product_id): one request for every warehouse of
\* the product that is low on or out of stock and has an active rule
check_reorder_triggers(counts, inv, p) ==
  [k \in DOMAIN inv |->
     IF /\ k[1] = p
        /\ reorder_rule_active(k)
        /\ determine_inventory_status(inv[k].available_quantity,
                                      inv[k].reorder_point) # "in_stock"
     THEN counts[k] + 1 ELSE counts[k]]

\* confirm_reservation with line 234 (the del) before lines 230-231
ConfirmCall_removes_first(rid) ==
  /\ nCalls < MaxCalls
  /\ nCalls' = nCalls + 1
  /\ LET call == [Frame EXCEPT !.op = "confirm", !.reservation_id = rid,
                               !.after_true = AfterTrue(rid)]
     IN IF rid \notin DOMAIN active_reservations
          THEN /\ Ret(EmptyBag, call, "False")
               /\ UNCHANGED <<inventory, faults, settled, last, active_reservations>>
        ELSE IF now > active_reservations[rid].expiry_time
          THEN CancelBegin(EmptyBag, call) /\ UNCHANGED active_reservations
        ELSE LET p == active_reservations[rid].product_id
                 q == active_reservations[rid].quantity
             IN /\ active_reservations' = Drop(active_reservations, rid)
                /\ \/ /\ confirm_inventory_allocation_ok(inventory, p, q)
                      /\ inventory' = confirm_inventory_allocation(inventory, p, q)
                      /\ settled' = [settled EXCEPT ![rid] = @ + 1]
                      /\ last' = Update("allocate", p, rid, q)
                      /\ Go(EmptyBag, [call EXCEPT !.pc = "c_allocated",
                                                   !.product_id = p, !.quantity = q])
                      /\ UNCHANGED faults
                   \/ /\ ~confirm_inventory_allocation_ok(inventory, p, q)
                      /\ Ret(EmptyBag, call, "False")
                      /\ UNCHANGED <<inventory, faults, settled, last>>
                   \/ /\ Fault
                      /\ Ret(EmptyBag, call, "False")
                      /\ UNCHANGED <<inventory, settled, last>>
  /\ UNCHANGED <<now, reservation_records, nextRid, reorders>>

\* confirm_reservation without lines 222-226 (no expiry test)
ConfirmCall_no_expiry_test(rid) ==
  /\ nCalls < MaxCalls
  /\ nCalls' = nCalls + 1
  /\ LET call == [Frame EXCEPT !.op = "confirm", !.reservation_id = rid,
                               !.after_true = AfterTrue(rid)]
     IN IF rid \notin DOMAIN active_reservations
          THEN /\ Ret(EmptyBag, call, "False")
               /\ UNCHANGED <<inventory, faults, settled, last>>
        ELSE LET p == active_reservations[rid].product_id
                 q == active_reservations[rid].quantity
             IN \/ /\ confirm_inventory_allocation_ok(inventory, p, q)
                   /\ inventory' = confirm_inventory_allocation(inventory, p, q)
                   /\ settled' = [settled EXCEPT ![rid] = @ + 1]
                   /\ last' = Update("allocate", p, rid, q)
                   /\ Go(EmptyBag, [call EXCEPT !.pc = "c_allocated",
                                                !.product_id = p, !.quantity = q])
                   /\ UNCHANGED faults
                \/ /\ ~confirm_inventory_allocation_ok(inventory, p, q)
                   /\ Ret(EmptyBag, call, "False")
                   /\ UNCHANGED <<inventory, faults, settled, last>>
                \/ /\ Fault
                   /\ Ret(EmptyBag, call, "False")
                   /\ UNCHANGED <<inventory, settled, last>>
  /\ UNCHANGED <<now, reservation_records, active_reservations, nextRid, reorders>>

\* lines 213-231: look the reservation up; when it has expired cancel it,
\* otherwise allocate its quantity
ConfirmCall(rid) ==
  /\ nCalls < MaxCalls
  /\ nCalls' = nCalls + 1
  /\ LET call == [Frame EXCEPT !.op = "confirm", !.reservation_id = rid,
                               !.after_true = AfterTrue(rid)]
     IN IF rid \notin DOMAIN active_reservations
          THEN /\ Ret(EmptyBag, call, "False")
               /\ UNCHANGED <<inventory, faults, settled, last>>
        ELSE IF now > active_reservations[rid].expiry_time
          THEN CancelBegin(EmptyBag, call)
        ELSE LET p == active_reservations[rid].product_id
                 q == active_reservations[rid].quantity
             IN \/ /\ confirm_inventory_allocation_ok(inventory, p, q)
                   /\ inventory' = confirm_inventory_allocation(inventory, p, q)
                   /\ settled' = [settled EXCEPT ![rid] = @ + 1]
                   /\ last' = Update("allocate", p, rid, q)
                   /\ Go(EmptyBag, [call EXCEPT !.pc = "c_allocated",
                                                !.product_id = p, !.quantity = q])
                   /\ UNCHANGED faults
                \/ /\ ~confirm_inventory_allocation_ok(inventory, p, q)
                   /\ Ret(EmptyBag, call, "False")
                   /\ UNCHANGED <<inventory, faults, settled, last>>
                \/ /\ Fault
                   /\ Ret(EmptyBag, call, "False")
                   /\ UNCHANGED <<inventory, settled, last>>
  /\ UNCHANGED <<now, reservation_records, active_reservations, nextRid, reorders>>

\* confirm_reservation with line 237 writing the status CANCELLED
ConfirmRemove_wrong_status(f) ==
  /\ f.pc = "c_allocated"
  /\ LET rid == f.reservation_id IN
       IF rid \notin DOMAIN active_reservations
         THEN /\ Ret(One(f), f, "False")
              /\ UNCHANGED <<active_reservations, reservation_records, faults>>
       ELSE /\ active_reservations' = Drop(active_reservations, rid)
            /\ \/ /\ reservation_records' =
                       update_reservation_status(reservation_records, rid, "CANCELLED")
                  /\ Go(One(f), [f EXCEPT !.pc = "c_status"])
                  /\ UNCHANGED faults
               \/ /\ Fault
                  /\ Ret(One(f), f, "False")
                  /\ UNCHANGED reservation_records
  /\ UNCHANGED <<now, inventory, nCalls, nextRid, reorders, settled, last>>

\* lines 233-237: delete the cache entry (KeyError when it is gone), set
\* the record's status
ConfirmRemove(f) ==
  /\ f.pc = "c_allocated"
  /\ LET rid == f.reservation_id IN
       IF rid \notin DOMAIN active_reservations
         THEN /\ Ret(One(f), f, "False")
              /\ UNCHANGED <<active_reservations, reservation_records, faults>>
       ELSE /\ active_reservations' = Drop(active_reservations, rid)
            /\ \/ /\ reservation_records' =
                       update_reservation_status(reservation_records, rid, "CONFIRMED")
                  /\ Go(One(f), [f EXCEPT !.pc = "c_status"])
                  /\ UNCHANGED faults
               \/ /\ Fault
                  /\ Ret(One(f), f, "False")
                  /\ UNCHANGED reservation_records
  /\ UNCHANGED <<now, inventory, nCalls, nextRid, reorders, settled, last>>

\* lines 239-243: check the reorder triggers, return True
ConfirmReorder(f) ==
  /\ f.pc = "c_status"
  /\ \/ /\ reorders' = check_reorder_triggers(reorders, inventory, f.product_id)
        /\ Ret(One(f), f, "True")
        /\ UNCHANGED faults
     \/ /\ Fault
        /\ Ret(One(f), f, "False")
        /\ UNCHANGED reorders
  /\ UNCHANGED <<now, inventory, reservation_records, active_reservations,
                 nCalls, nextRid, settled, last>>

(* --------------------- _schedule_reservation_expiry ------------------- *)

\* lines 441-443: compute the wait; sleep only when it is positive
ExpiryStart(f) ==
  /\ f.pc = "t_created"
  /\ IF f.expiry_time - now > 0
       THEN Go(One(f), [f EXCEPT !.pc = "t_sleep"])
     ELSE Ret(One(f), f, "no_wait")
  /\ UNCHANGED <<now, inventory, reservation_records, active_reservations,
                 nCalls, nextRid, faults, reorders, settled, last>>

\* lines 444-445: the sleep is over; cancel the reservation when it is
\* still in the cache
ExpiryWake(f) ==
  /\ f.pc = "t_sleep"
  /\ now >= f.expiry_time
  /\ IF f.reservation_id \notin DOMAIN active_reservations
       THEN /\ Ret(One(f), f, "gone")
            /\ UNCHANGED <<inventory, faults, settled, last>>
     ELSE CancelBegin(One(f), f)
  /\ UNCHANGED <<now, reservation_records, active_reservations, nCalls,
                 nextRid, reorders>>

(* -------------------------- update_stock_levels ----------------------- *)

\* lines 312-314: read the stock record
AdjustCall(p, w, d) ==
  /\ nCalls < MaxCalls
  /\ nCalls' = nCalls + 1
  /\ LET call == [Frame EXCEPT !.op = "adjust", !.product_id = p,
                               !.warehouse_id = w, !.quantity_change = d]
     IN \/ /\ Go(EmptyBag, [call EXCEPT !.pc = "a_read",
                     !.read_total = inventory[<<p, w>>].total_quantity,
                     !.read_available = inventory[<<p, w>>].available_quantity])
           /\ UNCHANGED faults
        \/ /\ Fault
           /\ Ret(EmptyBag, call, "False")
  /\ UNCHANGED <<now, inventory, reservation_records, active_reservations,
                 nextRid, reorders, settled, last>>

\* lines 320-331: compute the new quantities from the record read, refuse
\* negative ones, write them
AdjustWrite(f) ==
  /\ f.pc = "a_read"
  /\ LET new_total == f.read_total + f.quantity_change
         new_available == f.read_available + f.quantity_change
     IN IF new_total < 0 \/ new_available < 0
          THEN /\ Ret(One(f), f, "False")
               /\ UNCHANGED <<inventory, faults, last>>
        ELSE \/ /\ inventory' = update_inventory_quantities(inventory,
                       f.product_id, f.warehouse_id, new_total, new_available)
                /\ last' = Update("adjust", f.product_id, 0, f.quantity_change)
                /\ Go(One(f), [f EXCEPT !.pc = "a_written",
                                        !.read_available = new_available])
                /\ UNCHANGED faults
             \/ /\ Fault
                /\ Ret(One(f), f, "False")
                /\ UNCHANGED <<inventory, last>>
  /\ UNCHANGED <<now, reservation_records, active_reservations, nCalls,
                 nextRid, reorders, settled>>

\* lines 333-336: the status that goes with the new available quantity
AdjustStatus(f) ==
  /\ f.pc = "a_written"
  /\ LET key == <<f.product_id, f.warehouse_id>>
         new_status == determine_inventory_status(f.read_available,
                                                  inventory[key].reorder_point)
     IN \/ /\ inventory' = update_inventory_status(inventory, key[1], key[2], new_status)
           /\ Go(One(f), [f EXCEPT !.pc =
                IF new_status \in {"low_stock", "out_of_stock"}
                  THEN "a_reorder" ELSE "a_return"])
           /\ UNCHANGED faults
        \/ /\ Fault
           /\ Ret(One(f), f, "False")
           /\ UNCHANGED inventory
  /\ UNCHANGED <<now, reservation_records, active_reservations, nCalls,
                 nextRid, reorders, settled, last>>

\* lines 338-343: trigger the reorder process when the stock is low or out
AdjustReorder(f) ==
  /\ f.pc = "a_reorder"
  /\ LET key == <<f.product_id, f.warehouse_id>> IN
       \/ /\ reorders' = [reorders EXCEPT ![key] = @ + 1]
          /\ Ret(One(f), f, "True")
          /\ UNCHANGED faults
       \/ /\ Fault
          /\ Ret(One(f), f, "False")
          /\ UNCHANGED reorders
  /\ UNCHANGED <<now, inventory, reservation_records, active_reservations,
                 nCalls, nextRid, settled, last>>

\* lines 342-343: nothing to reorder, return True
AdjustReturn(f) ==
  /\ f.pc = "a_return"
  /\ Ret(One(f), f, "True")
  /\ UNCHANGED <<now, inventory, reservation_records, active_reservations,
                 nCalls, nextRid, faults, reorders, settled, last>>

(* -------------------------------- clock ------------------------------- *)

Tick ==
  /\ now < MaxTime
  /\ now' = now + 1
  /\ UNCHANGED <<inventory, reservation_records, active_reservations, tasks,
                 returned, nCalls, nextRid, faults, reorders, settled, last>>

\* the arguments the calls are made with
Quantities == -1..MaxQty
Times == 0..MaxTime
Deltas == {-1, 1}

(* ------------- update_stock_level (inventory_management_service.py) -------------- *)
(*                                                                         *)
(* The handler runs in one database transaction (lines 282-283) that is    *)
(* committed when the block is left by the return and rolled back when it  *)
(* is left by an exception.  The source sets no isolation level: a SELECT  *)
(* reads the committed row, an UPDATE takes the row's lock until the       *)
(* transaction ends, and a transaction's own writes are visible to it      *)
(* only.  The tables have no constraint that the source shows.             *)

StockMovementType ==
  {"receipt", "shipment", "adjustment", "transfer", "return", "damage", "expiry"}

\* lines 293-308: the new quantities of the row for a movement; `rejected`
\* is the HTTPException 400 of lines 302-303
new_quantities(movement_type, quantity, on_hand, available) ==
  IF movement_type \in {"receipt", "return"}
    THEN [rejected |-> FALSE, new_quantity |-> on_hand + quantity,
          new_available |-> available + quantity]
  ELSE IF movement_type \in {"shipment", "damage", "expiry"}
    THEN IF on_hand < quantity
           THEN [rejected |-> TRUE, new_quantity |-> on_hand,
                 new_available |-> available]
         ELSE [rejected |-> FALSE, new_quantity |-> on_hand - quantity,
               new_available |-> Min(available, on_hand - quantity)]
  ELSE IF movement_type = "adjustment"
    THEN [rejected |-> FALSE, new_quantity |-> quantity,
          new_available |-> Min(available, quantity)]
  ELSE [rejected |-> FALSE, new_quantity |-> on_hand, new_available |-> available]

\* StockLevel without the ge=0 constraints of its fields: the validator
\* alone
StockLevelValid_validator_only(row) ==
  row.quantity_available <= row.quantity_on_hand

\* StockLevel(**row), lines 102-120: the field constraints and the validator
StockLevelValid(row) ==
  /\ row.quantity_on_hand >= 0
  /\ row.quantity_available >= 0
  /\ row.quantity_allocated >= 0
  /\ row.quantity_available <= row.quantity_on_hand

\* table reorder_rules: the active rule of a warehouse, when it has one
ReorderRules == [w \in {"WH002"} |-> [reorder_point |-> 1, is_active |-> TRUE]]

\* the frame of an update_stock_level call
MoveFrame ==
  [pc |-> "start", warehouse_id |-> "-", movement_type |-> "-", quantity |-> 0,
   found |-> FALSE, read_on_hand |-> 0, read_available |-> 0,
   new_quantity |-> 0, new_available |-> 0,
   updated_on_hand |-> 0, updated_available |-> 0,
   ordered |-> FALSE]

MoveFrames == BagToSet(moves)

\* the row of a warehouse is locked by a transaction that has updated it
RowLocked(w) ==
  \E f \in MoveFrames :
    /\ f.warehouse_id = w
    /\ f.pc \in {"m_updated", "m_inserted", "m_reselected", "m_reordered",
                 "m_invalidated"}

MoveGo(old, g) ==
  /\ moves' = (moves (-) old) (+) One(g)
  /\ UNCHANGED responses

\* the call ends with res; what it has not committed is rolled back
MoveEnd(old, rec, res) ==
  /\ moves' = moves (-) old
  /\ responses' = responses \cup
       {[warehouse_id |-> rec.warehouse_id, movement_type |-> rec.movement_type,
         quantity |-> rec.quantity, result |-> res, ordered |-> rec.ordered]}

DbError == db_errors < MaxDbErrors /\ db_errors' = db_errors + 1

\* lines 281-289: open the transaction, read the row
MoveCall(w, t, q) ==
  /\ nMoves < MaxMoves
  /\ nMoves' = nMoves + 1
  /\ LET call == [MoveFrame EXCEPT !.warehouse_id = w, !.movement_type = t,
                                   !.quantity = q]
     IN \/ /\ UNCHANGED db_errors
           /\ IF w \in DOMAIN stock_levels
                THEN MoveGo(EmptyBag, [call EXCEPT !.pc = "m_selected", !.found = TRUE,
                       !.read_on_hand = stock_levels[w].quantity_on_hand,
                       !.read_available = stock_levels[w].quantity_available])
              ELSE MoveGo(EmptyBag, [call EXCEPT !.pc = "m_selected"])
        \/ /\ DbError
           /\ MoveEnd(EmptyBag, call, "Exception")
  /\ UNCHANGED <<stock_levels, stock_movements, purchase_orders, events, stock_cache>>

\* lines 290-291: no row
MoveNotFound(f) ==
  /\ f.pc = "m_selected"
  /\ ~f.found
  /\ MoveEnd(One(f), f, "HTTPException:404")
  /\ UNCHANGED <<stock_levels, stock_movements, purchase_orders, events,
                 stock_cache, nMoves, db_errors>>

\* lines 293-315: compute the new quantities, refuse a shipment of more
\* than is on hand, update the row (the update waits for the row's lock)
MoveUpdate(f) ==
  /\ f.pc = "m_selected"
  /\ f.found
  /\ LET n == new_quantities(f.movement_type, f.quantity, f.read_on_hand,
                             f.read_available)
     IN IF n.rejected
          THEN MoveEnd(One(f), f, "HTTPException:400") /\ UNCHANGED db_errors
        ELSE \/ /\ ~RowLocked(f.warehouse_id)
                /\ MoveGo(One(f), [f EXCEPT !.pc = "m_updated",
                                            !.new_quantity = n.new_quantity,
                                            !.new_available = n.new_available])
                /\ UNCHANGED db_errors
             \/ /\ DbError
                /\ MoveEnd(One(f), f, "Exception")
  /\ UNCHANGED <<stock_levels, stock_movements, purchase_orders, events,
                 stock_cache, nMoves>>

\* lines 317-330: insert the movement
MoveInsert(f) ==
  /\ f.pc = "m_updated"
  /\ \/ MoveGo(One(f), [f EXCEPT !.pc = "m_inserted"]) /\ UNCHANGED db_errors
     \/ DbError /\ MoveEnd(One(f), f, "Exception")
  /\ UNCHANGED <<stock_levels, stock_movements, purchase_orders, events,
                 stock_cache, nMoves>>

\* lines 332-336: read the row again (the transaction sees its own update)
MoveReselect(f) ==
  /\ f.pc = "m_inserted"
  /\ \/ /\ MoveGo(One(f), [f EXCEPT !.pc = "m_reselected",
                                    !.updated_on_hand = f.new_quantity,
                                    !.updated_available = f.new_available])
        /\ UNCHANGED db_errors
     \/ DbError /\ MoveEnd(One(f), f, "Exception")
  /\ UNCHANGED <<stock_levels, stock_movements, purchase_orders, events,
                 stock_cache, nMoves>>

\* check_reorder_rules(item_id, warehouse_id, current_quantity), lines
\* 586-612: the warehouse has an active rule and the quantity is at or
\* below its reorder point
reorder_due(w, current_quantity) ==
  /\ w \in DOMAIN ReorderRules
  /\ ReorderRules[w].is_active
  /\ current_quantity <= ReorderRules[w].reorder_point

\* create_purchase_order_request(request)
create_purchase_order_request(orders, w, current_quantity) ==
  orders (+) One([warehouse_id |-> w, current_stock |-> current_quantity])

\* lines 338-339: check the reorder rules with the new quantity on hand
MoveReorder(f) ==
  /\ f.pc = "m_reselected"
  /\ \/ /\ IF reorder_due(f.warehouse_id, f.new_quantity)
             THEN /\ purchase_orders' = create_purchase_order_request(
                         purchase_orders, f.warehouse_id, f.new_quantity)
                  /\ MoveGo(One(f), [f EXCEPT !.pc = "m_reordered", !.ordered = TRUE])
           ELSE /\ UNCHANGED purchase_orders
                /\ MoveGo(One(f), [f EXCEPT !.pc = "m_reordered"])
        /\ UNCHANGED db_errors
     \/ /\ DbError
        /\ MoveEnd(One(f), f, "Exception")
        /\ UNCHANGED purchase_orders
  /\ UNCHANGED <<stock_levels, stock_movements, events, stock_cache, nMoves>>

\* lines 341-342: delete the cache key
MoveInvalidate(f) ==
  /\ f.pc = "m_reordered"
  /\ \/ /\ stock_cache' = stock_cache \ {f.warehouse_id}
        /\ MoveGo(One(f), [f EXCEPT !.pc = "m_invalidated"])
        /\ UNCHANGED db_errors
     \/ /\ DbError
        /\ MoveEnd(One(f), f, "Exception")
        /\ UNCHANGED stock_cache
  /\ UNCHANGED <<stock_levels, stock_movements, purchase_orders, events, nMoves>>

\* publish_inventory_event("stock_updated", ...), lines 614-627: the event
\* is sent, or the producer raises and the error is logged
publish_inventory_event(sent, f) ==
  {sent (+) One([event_type |-> "stock_updated", warehouse_id |-> f.warehouse_id,
                 movement_type |-> f.movement_type, quantity |-> f.quantity,
                 new_stock_level |-> f.new_quantity]),
   sent}

\* update_stock_level with publish_inventory_event lacking its try/except:
\* a failure of the producer leaves the transaction block as an exception
MoveCommit_publish_raises(f) ==
  /\ f.pc = "m_invalidated"
  /\ LET w == f.warehouse_id
         updated_stock == [stock_levels[w] EXCEPT
                             !.quantity_on_hand = f.updated_on_hand,
                             !.quantity_available = f.updated_available]
     IN \/ /\ events' = events
           /\ MoveEnd(One(f), f, "Exception")
           /\ UNCHANGED <<stock_levels, stock_movements, db_errors>>
        \/ /\ events' \in publish_inventory_event(events, f) \ {events}
           /\ IF ~StockLevelValid(updated_stock)
                THEN /\ MoveEnd(One(f), f, "ValidationError")
                     /\ UNCHANGED <<stock_levels, stock_movements, db_errors>>
              ELSE \/ /\ stock_levels' = [stock_levels EXCEPT ![w] = updated_stock]
                      /\ stock_movements' = stock_movements (+)
                           One([warehouse_id |-> w, movement_type |-> f.movement_type,
                                quantity |-> f.quantity])
                      /\ MoveEnd(One(f), f, "StockLevel")
                      /\ UNCHANGED db_errors
                   \/ /\ DbError
                      /\ MoveEnd(One(f), f, "Exception")
                      /\ UNCHANGED <<stock_levels, stock_movements>>
  /\ UNCHANGED <<purchase_orders, stock_cache, nMoves>>

\* lines 344-353 and the end of the transaction block: publish the event,
\* build the StockLevel to return; the transaction is committed when it
\* validates and rolled back when it raises
MoveCommit(f) ==
  /\ f.pc = "m_invalidated"
  /\ events' \in publish_inventory_event(events, f)
  /\ LET w == f.warehouse_id
         updated_stock == [stock_levels[w] EXCEPT
                             !.quantity_on_hand = f.updated_on_hand,
                             !.quantity_available = f.updated_available]
     IN IF ~StockLevelValid(updated_stock)
          THEN /\ MoveEnd(One(f), f, "ValidationError")
               /\ UNCHANGED <<stock_levels, stock_movements, db_errors>>
        ELSE \/ /\ stock_levels' = [stock_levels EXCEPT ![w] = updated_stock]
                /\ stock_movements' = stock_movements (+)
                     One([warehouse_id |-> w, movement_type |-> f.movement_type,
                          quantity |-> f.quantity])
                /\ MoveEnd(One(f), f, "StockLevel")
                /\ UNCHANGED db_errors
             \/ /\ DbError
                /\ MoveEnd(One(f), f, "Exception")
                /\ UNCHANGED <<stock_levels, stock_movements>>
  /\ UNCHANGED <<purchase_orders, stock_cache, nMoves>>

\* the requests: a warehouse with a row or one without, any movement type,
\* a quantity of either sign
MoveWarehouses == Warehouses \cup {"WH999"}
MoveTypes == StockMovementType

MoveNext ==
  \/ \E w \in MoveWarehouses, t \in MoveTypes, q \in Quantities :
       MoveCall(w, t, q) /\ UNCHANGED <<service_vars, status_vars>>
  \/ \E f \in MoveFrames : MoveNotFound(f) /\ UNCHANGED <<service_vars, status_vars>>
  \/ \E f \in MoveFrames : MoveUpdate(f) /\ UNCHANGED <<service_vars, status_vars>>
  \/ \E f \in MoveFrames : MoveInsert(f) /\ UNCHANGED <<service_vars, status_vars>>
  \/ \E f \in MoveFrames : MoveReselect(f) /\ UNCHANGED <<service_vars, status_vars>>
  \/ \E f \in MoveFrames : MoveReorder(f) /\ UNCHANGED <<service_vars, status_vars>>
  \/ \E f \in MoveFrames : MoveInvalidate(f) /\ UNCHANGED <<service_vars, status_vars>>
  \/ \E f \in MoveFrames : MoveCommit(f) /\ UNCHANGED <<service_vars, status_vars>>

(* -------------------- _determine_inventory_status ---------------------- *)

\* the arguments of a call: integers of either sign
AvailableQuantities == (0 - MaxAvailable)..MaxAvailable
ReorderPoints == (0 - MaxReorderPoint)..MaxReorderPoint

\* a call is about to be made with some arguments
StatusInit ==
  /\ ServiceInit
  /\ \E a \in AvailableQuantities, r \in ReorderPoints :
       status_call = [available_quantity |-> a, reorder_point |-> r, result |-> "none"]
  /\ availability_call = NoAvailabilityCall

\* lines 447-455: the call returns; it assigns nothing
DetermineStatus ==
  /\ status_call.result = "none"
  /\ status_call' = [status_call EXCEPT !.result =
       determine_inventory_status(status_call.available_quantity,
                                  status_call.reorder_point)]
  /\ UNCHANGED <<service_vars, movement_vars, availability_call>>

StatusNext == DetermineStatus

StatusSpec == StatusInit /\ [][StatusNext]_vars

(* -------------------------- check_availability ------------------------- *)

\* _get_inventory_items(product_id, warehouse_id): the product's records,
\* those of one warehouse when one is given
get_inventory_items(inv, product_id, warehouse_id) ==
  {k \in DOMAIN inv : /\ k[1] = product_id
                      /\ warehouse_id = "None" \/ k[2] = warehouse_id}

\* check_availability with line 125 testing `total_available > quantity`
check_availability_more(inv, product_id, quantity, warehouse_id) ==
  LET inventory_items == get_inventory_items(inv, product_id, warehouse_id)
      total_available ==
        SumOver([k \in inventory_items |-> inv[k].available_quantity],
                inventory_items)
  IN IF inventory_items = {} THEN FALSE
     ELSE total_available > quantity

\* lines 113-131: no record answers False; otherwise the available
\* quantities are summed and compared with the quantity asked for
check_availability(inv, product_id, quantity, warehouse_id) ==
  LET inventory_items == get_inventory_items(inv, product_id, warehouse_id)
      total_available ==
        SumOver([k \in inventory_items |-> inv[k].available_quantity],
                inventory_items)
  IN IF inventory_items = {} THEN FALSE
     ELSE total_available >= quantity

\* the arguments of a call: a product with records or one without, no
\* warehouse, one with a record or one without, a quantity of either sign
QueryProducts == Items \cup {"unknown"}
QueryWarehouses == Warehouses \cup {"None", "WH999"}
QueryQuantities == -1..(2 * MaxQty)

\* the stock records a call may find: any quantities within the bounds
QueryInventories ==
  {[k \in Keys |-> [Provision(tw[k[2]][1], 1) EXCEPT
                      !.available_quantity = tw[k[2]][1] - tw[k[2]][2],
                      !.reserved_quantity = tw[k[2]][2]]] :
     tw \in [Warehouses -> {x \in (0..MaxQty) \X (0..MaxQty) : x[2] <= x[1]}]}

\* a call is about to be made
QueryInit ==
  /\ \E inv \in QueryInventories : ServiceInitWith(inv)
  /\ status_call = NoStatusCall
  /\ \E p \in QueryProducts, q \in QueryQuantities, w \in QueryWarehouses :
       availability_call = [NoAvailabilityCall EXCEPT !.product_id = p,
                              !.quantity = q, !.warehouse_id = w]

\* lines 113-135: the call returns its answer, or the read of the records
\* raises and the except clause answers False; nothing is assigned
CheckAvailability ==
  /\ availability_call.result = "none"
  /\ \/ availability_call' = [availability_call EXCEPT !.result =
          Bool(check_availability(inventory, availability_call.product_id,
                                  availability_call.quantity,
                                  availability_call.warehouse_id))]
     \/ availability_call' = [availability_call EXCEPT !.result = "False",
                                                       !.raised = TRUE]
  /\ UNCHANGED <<service_vars, movement_vars, status_call>>

QueryNext == CheckAvailability

QuerySpec == QueryInit /\ [][QueryNext]_vars

(* ---------------------------- specification --------------------------- *)


Next ==
  \/ \E p \in Items, q \in Quantities, e \in Times : ReserveCall(p, q, e) /\ UNCHANGED <<movement_vars, status_vars>>
  \/ \E f \in Frames : ReserveInsufficient(f) /\ UNCHANGED <<movement_vars, status_vars>>
  \/ \E f \in Frames : ReserveCreateRecord(f) /\ UNCHANGED <<movement_vars, status_vars>>
  \/ \E f \in Frames : ReserveUpdateInventory(f) /\ UNCHANGED <<movement_vars, status_vars>>
  \/ \E f \in Frames : ReserveFinish(f) /\ UNCHANGED <<movement_vars, status_vars>>
  \/ \E f \in Frames : ReserveCleanup(f) /\ UNCHANGED <<movement_vars, status_vars>>
  \/ \E rid \in KnownIds : CancelCall(rid) /\ UNCHANGED <<movement_vars, status_vars>>
  \/ \E f \in Frames : CancelFinish(f) /\ UNCHANGED <<movement_vars, status_vars>>
  \/ \E rid \in KnownIds : ConfirmCall(rid) /\ UNCHANGED <<movement_vars, status_vars>>
  \/ \E f \in Frames : ConfirmRemove(f) /\ UNCHANGED <<movement_vars, status_vars>>
  \/ \E f \in Frames : ConfirmReorder(f) /\ UNCHANGED <<movement_vars, status_vars>>
  \/ \E f \in Frames : ExpiryStart(f) /\ UNCHANGED <<movement_vars, status_vars>>
  \/ \E f \in Frames : ExpiryWake(f) /\ UNCHANGED <<movement_vars, status_vars>>
  \/ \E p \in Items, w \in Warehouses, d \in Deltas : AdjustCall(p, w, d) /\ UNCHANGED <<movement_vars, status_vars>>
  \/ \E f \in Frames : AdjustWrite(f) /\ UNCHANGED <<movement_vars, status_vars>>
  \/ \E f \in Frames : AdjustStatus(f) /\ UNCHANGED <<movement_vars, status_vars>>
  \/ \E f \in Frames : AdjustReorder(f) /\ UNCHANGED <<movement_vars, status_vars>>
  \/ \E f \in Frames : AdjustReturn(f) /\ UNCHANGED <<movement_vars, status_vars>>
  \/ Tick /\ UNCHANGED <<movement_vars, status_vars>>

Spec == Init /\ [][Next]_vars

MoveSpec == Init /\ [][MoveNext]_vars

\* the service with a second product, provisioned like the first: the
\* calls name either product; a reservation is of one unit until MaxTime,
\* an adjustment is of the first warehouse
ItemProducts == Items \cup {"Y"}

ItemInventory ==
  [k \in ItemProducts \X Warehouses |->
     IF k[2] = "WH001" THEN Provision(2, 1) ELSE Provision(1, 1)]

ItemInit ==
  /\ ServiceInitWith(ItemInventory)
  /\ status_call = NoStatusCall
  /\ availability_call = NoAvailabilityCall

ItemNext ==
  \/ \E p \in ItemProducts : ReserveCall(p, 1, MaxTime) /\ UNCHANGED <<movement_vars, status_vars>>
  \/ \E f \in Frames : ReserveInsufficient(f) /\ UNCHANGED <<movement_vars, status_vars>>
  \/ \E f \in Frames : ReserveCreateRecord(f) /\ UNCHANGED <<movement_vars, status_vars>>
  \/ \E f \in Frames : ReserveUpdateInventory(f) /\ UNCHANGED <<movement_vars, status_vars>>
  \/ \E f \in Frames : ReserveFinish(f) /\ UNCHANGED <<movement_vars, status_vars>>
  \/ \E f \in Frames : ReserveCleanup(f) /\ UNCHANGED <<movement_vars, status_vars>>
  \/ \E rid \in KnownIds : CancelCall(rid) /\ UNCHANGED <<movement_vars, status_vars>>
  \/ \E f \in Frames : CancelFinish(f) /\ UNCHANGED <<movement_vars, status_vars>>
  \/ \E rid \in KnownIds : ConfirmCall(rid) /\ UNCHANGED <<movement_vars, status_vars>>
  \/ \E f \in Frames : ConfirmRemove(f) /\ UNCHANGED <<movement_vars, status_vars>>
  \/ \E f \in Frames : ConfirmReorder(f) /\ UNCHANGED <<movement_vars, status_vars>>
  \/ \E f \in Frames : ExpiryStart(f) /\ UNCHANGED <<movement_vars, status_vars>>
  \/ \E f \in Frames : ExpiryWake(f) /\ UNCHANGED <<movement_vars, status_vars>>
  \/ \E p \in ItemProducts, d \in Deltas : AdjustCall(p, "WH001", d) /\ UNCHANGED <<movement_vars, status_vars>>
  \/ \E f \in Frames : AdjustWrite(f) /\ UNCHANGED <<movement_vars, status_vars>>
  \/ \E f \in Frames : AdjustStatus(f) /\ UNCHANGED <<movement_vars, status_vars>>
  \/ \E f \in Frames : AdjustReorder(f) /\ UNCHANGED <<movement_vars, status_vars>>
  \/ \E f \in Frames : AdjustReturn(f) /\ UNCHANGED <<movement_vars, status_vars>>
  \/ Tick /\ UNCHANGED <<movement_vars, status_vars>>

ItemSpec == ItemInit /\ [][ItemNext]_vars

(* ------------------------------- claims ------------------------------- *)

\* no coroutine is in flight
Quiescent == tasks = EmptyBag

\* the quantities held by the reservations in the cache, for product p
ActiveQuantity(p) ==
  LET ids == {r \in DOMAIN active_reservations :
                active_reservations[r].product_id = p}
  IN SumOver([r \in ids |-> active_reservations[r].quantity], ids)

\* C1: every stock record always has available_quantity + reserved_quantity
\* = total_quantity, and none of the three is negative, whatever reserve,
\* confirm, cancel, expiry and adjust operations have run, interleaved or not.
C1_LedgerInvariant ==
  \A k \in Keys :
    /\ inventory[k].available_quantity + inventory[k].reserved_quantity
         = inventory[k].total_quantity
    /\ inventory[k].available_quantity >= 0
    /\ inventory[k].reserved_quantity >= 0
    /\ inventory[k].total_quantity >= 0

\* the reserve calls that have passed the availability check and have not
\* yet updated the stock records
PassedCheck(p) ==
  {f \in Frames : /\ f.op = "reserve"
                  /\ f.product_id = p
                  /\ f.pc = "r_record" \/ (f.pc = "r_checked" /\ f.is_available)}

\* only reserve calls (and their expiry tasks) have run, and the store has
\* never raised
OnlyReserves ==
  /\ faults = 0
  /\ \A f \in Frames : f.op \in {"reserve", "expiry"}
  /\ \A o \in returned : o.op \in {"reserve", "expiry"}

\* C2: concurrent reserve calls never pass the availability check together
\* against a quantity that covers only some of them: what the calls that
\* have passed the check ask for is available, and a call that loses fails
\* with InsufficientInventoryError, never otherwise.
C2_NoOverselling ==
  OnlyReserves =>
    /\ \A p \in Items :
         SumOver([f \in PassedCheck(p) |-> f.quantity * CopiesIn(f, tasks)],
                 PassedCheck(p)) <= TotalAvailable(inventory, p)
    /\ \A o \in returned : o.op = "reserve" => o.result # "ReservationError"

\* C3: whichever of confirm, cancel and the expiry task acts first on a
\* reservation wins; the quantity of a reservation is released or allocated
\* exactly once.
C3_SettledOnce == \A r \in RIds : settled[r] <= 1

\* C4: the available quantity is never negative and, once every call has
\* returned, the quantities of the reservations still pending add up to
\* the reserved quantity of the product.
C4_PendingMatchesReserved ==
  /\ \A k \in Keys : inventory[k].available_quantity >= 0
  /\ Quiescent =>
       \A p \in Items : ActiveQuantity(p) = TotalReserved(inventory, p)

\* the expiry tasks of reservation r, running or ended
ExpiryTasks(r) ==
  LET running == {f \in Frames : f.op = "expiry" /\ f.reservation_id = r}
      ended == {o \in returned : o.op = "expiry" /\ o.reservation_id = r}
  IN SumOver([f \in running |-> CopiesIn(f, tasks)], running) + Cardinality(ended)

\* a confirm or cancel call has been made on reservation r
CalledOn(r) ==
  \/ \E f \in Frames : f.op \in {"cancel", "confirm"} /\ f.reservation_id = r
  \/ \E o \in returned : o.op \in {"cancel", "confirm"} /\ o.reservation_id = r

C7_ExpiredWhenTaskEnds ==
  \A o \in returned :
    (o.op = "expiry" /\ ~CalledOn(o.reservation_id) /\ faults = 0) =>
      /\ o.reservation_id \notin DOMAIN active_reservations
      /\ reservation_records[o.reservation_id].status = "EXPIRED"
      /\ settled[o.reservation_id] = 1

C9_ConfirmEffect ==
  /\ last.kind = "allocate" =>
       Totals(inventory, last.product_id) =
         [available |-> last.pre.available,
          reserved |-> last.pre.reserved - last.quantity,
          total |-> last.pre.total - last.quantity]
  /\ \A o \in returned :
       (o.op = "confirm" /\ o.result = "True") =>
         /\ o.reservation_id \notin DOMAIN active_reservations
         /\ reservation_records[o.reservation_id].status = "CONFIRMED"
         /\ settled[o.reservation_id] >= 1

\* total 3, available 3: reserve 2 then confirm gives total 1, available 1,
\* reserved 0
C9_Witness ==
  /\ \E o \in returned : o.op = "confirm" /\ o.result = "True"
  /\ Totals(inventory, "X") = [available |-> 1, reserved |-> 0, total |-> 1]

\* C10: a reserve with quantity <= 0 raises the quantity ValueError, one
\* with a positive quantity and expiry_time <= now raises the expiry
\* ValueError, no other request is rejected so, and the step that rejects
\* leaves the stock records, the reservation records, the cache and the
\* coroutines as they were.
C10_Validation ==
  /\ [](/\ \A o \in returned :
             /\ o.result = "ValueError:quantity" => o.quantity <= 0
             /\ o.result = "ValueError:expiry" =>
                  (o.quantity > 0 /\ o.expiry_time <= o.called_at)
        /\ \A f \in Frames :
             f.op = "reserve" => (f.quantity > 0 /\ f.expiry_time > f.called_at))
  /\ [][(\E o \in returned' \ returned :
            o.result \in {"ValueError:quantity", "ValueError:expiry"})
          => UNCHANGED <<inventory, reservation_records, active_reservations,
                         tasks, nextRid>>]_vars

\* both rejections have happened
C10_Witness ==
  /\ \E o \in returned : o.result = "ValueError:quantity" /\ o.quantity = 0
  /\ \E o \in returned : o.result = "ValueError:expiry" /\ o.expiry_time = o.called_at

\* the coroutines that exist after the step and did not before it
Started == {g \in BagToSet(tasks') : CopiesIn(g, tasks') > CopiesIn(g, tasks)}
\* the coroutines that the step moves on or ends
Left == {g \in Frames : CopiesIn(g, tasks') < CopiesIn(g, tasks)}

\* C11: a reserve passes the availability check only when the product's
\* available quantity covers the request; a reserve that has not passed it
\* ends with InsufficientInventoryError in a step that creates no
\* reservation record, no cache entry and no coroutine, and leaves the stock
\* records as they were.
C11_InsufficientRejected ==
  [][/\ \A g \in Started :
          (g.op = "reserve" /\ g.pc = "r_checked" /\ g.is_available)
            => TotalAvailable(inventory, g.product_id) >= g.quantity
     /\ \A f \in Left :
          (f.op = "reserve" /\ f.pc = "r_checked" /\ ~f.is_available)
            => /\ Outcome(f, "InsufficientInventoryError") \in returned'
               /\ Started = {}
               /\ UNCHANGED <<inventory, reservation_records,
                              active_reservations, nextRid>>]_vars

\* with 1 available and no store error, a reserve of 2 was refused
C11_Witness ==
  /\ faults = 0
  /\ TotalAvailable(inventory, "X") = 1
  /\ \E o \in returned : o.op = "reserve" /\ o.result = "InsufficientInventoryError"
  /\ \A f \in Frames : f.op # "reserve"

ReturnedAtOnce == nCalls' = nCalls + 1 /\ Started = {}

\* C13: a confirm or cancel whose reservation id is not in the cache starts
\* no coroutine and returns False in the step of the call, which leaves the
\* stock records, the reservation records and the cache as they were; an id
\* that was never issued is never found.
C13_NotActiveReturnsFalse ==
  /\ [](/\ \A f \in Frames :
             f.op \in {"cancel", "confirm"} => f.reservation_id # 0
        /\ \A o \in returned :
             (o.op \in {"cancel", "confirm"} /\ o.reservation_id = 0)
               => o.result = "False")
  /\ [][/\ \A g \in Started :
             g.op \in {"cancel", "confirm"}
               => g.reservation_id \in DOMAIN active_reservations
        /\ nCalls' = nCalls + 1 =>
             \A o \in returned' \ returned :
               (/\ o.op \in {"cancel", "confirm"}
                /\ o.reservation_id \notin DOMAIN active_reservations)
                 => o.result = "False"
        /\ ReturnedAtOnce =>
             UNCHANGED <<inventory, reservation_records, active_reservations,
                         settled, reorders>>]_vars

\* a cancel and a confirm of an id that was never issued have returned False
\* while another reservation is in the cache
C13_Witness ==
  /\ \E o \in returned : o.op = "cancel" /\ o.reservation_id = 0 /\ o.result = "False"
  /\ \E o \in returned : o.op = "confirm" /\ o.reservation_id = 0 /\ o.result = "False"
  /\ DOMAIN active_reservations # {}

\* the reservations whose record has status PENDING
Pending ==
  {r \in DOMAIN reservation_records : reservation_records[r].status = "PENDING"}

\* C14: once every call has returned the cache holds exactly the
\* reservations whose status is PENDING; a status only changes from PENDING
\* to CONFIRMED, CANCELLED or EXPIRED, and a record that has left PENDING
\* is never changed or removed.
C14_IndexIsPending ==
  /\ [](Quiescent => DOMAIN active_reservations = Pending)
  /\ [][\A r \in DOMAIN reservation_records :
          \/ /\ r \in DOMAIN reservation_records'
             /\ reservation_records'[r] = reservation_records[r]
          \/ /\ reservation_records[r].status = "PENDING"
             /\ r \in DOMAIN reservation_records'
             /\ reservation_records'[r].status \in {"CONFIRMED", "CANCELLED", "EXPIRED"}
          \/ /\ reservation_records[r].status = "PENDING"
             /\ r \notin DOMAIN reservation_records'
             /\ r \notin DOMAIN active_reservations]_vars

\* the cached reservations whose expiry_time has passed
Expired ==
  {r \in DOMAIN active_reservations : now > active_reservations[r].expiry_time}

\* C15: a confirm called on a cached reservation whose expiry_time has
\* passed never allocates: it releases the reservation's quantity (total
\* unchanged) and goes on in cancel_reservation, or the store raises or
\* refuses the release and it returns False at once; on the cancel path it
\* returns False and the reservation is out of the cache.
C15_ExpiredConfirmCancels ==
  [][/\ nCalls' = nCalls + 1 =>
          \A r \in Expired :
            LET p == active_reservations[r].product_id
                q == active_reservations[r].quantity
            IN /\ \A g \in Started :
                    (g.op = "confirm" /\ g.reservation_id = r)
                      => /\ g.pc = "x_released"
                         /\ Totals(inventory', p) =
                              [available |-> TotalAvailable(inventory, p) + q,
                               reserved |-> TotalReserved(inventory, p) - q,
                               total |-> TotalQuantity(inventory, p)]
               /\ \A o \in returned' \ returned :
                    (o.op = "confirm" /\ o.reservation_id = r)
                      => /\ o.result = "False"
                         /\ UNCHANGED inventory
                         /\ faults' > faults \/ TotalReserved(inventory, p) < q
     /\ \A f \in Left :
          (f.op = "confirm" /\ f.pc = "x_released")
            => /\ Outcome(f, "False") \in returned'
               /\ f.reservation_id \notin DOMAIN active_reservations'
               /\ UNCHANGED inventory]_vars

\* nobody called cancel and the expiry task has not acted; a confirm made
\* after the expiry_time has returned False, the quantity is released and
\* the reservation out of the cache
C15_Witness ==
  /\ faults = 0
  /\ \A o \in returned : o.op \in {"reserve", "confirm"}
  /\ \A f \in Frames : f.op = "expiry" /\ f.pc \in {"t_created", "t_sleep"}
  /\ \E o \in returned : /\ o.op = "confirm" /\ o.result = "False"
                         /\ o.reservation_id = 1
                         /\ settled[1] = 1
  /\ active_reservations = << >>
  /\ Totals(inventory, "X") = Totals(InitialInventory, "X")

\* C16: a confirm of a cached, unexpired reservation that returns in the
\* step of the call has failed in the allocation (the store raised or
\* refused it): it returns False and leaves the stock records, the cache
\* and the reservation record, still PENDING, as they were.
C16_FailedAllocationKeepsPending ==
  [][nCalls' = nCalls + 1 =>
       \A r \in DOMAIN active_reservations \ Expired :
         \A o \in returned' \ returned :
           (o.op = "confirm" /\ o.reservation_id = r)
             => /\ o.result = "False"
                /\ \/ faults' > faults
                   \/ ~confirm_inventory_allocation_ok(inventory,
                         active_reservations[r].product_id,
                         active_reservations[r].quantity)
                /\ UNCHANGED <<inventory, active_reservations,
                               reservation_records, settled>>
                /\ r \in DOMAIN active_reservations'
                /\ r \in DOMAIN reservation_records
                     => reservation_records'[r].status = reservation_records[r].status]_vars

\* the store raised in the allocation of a first confirm, which returned
\* False; a later confirm of the same reservation returned True
C16_Witness ==
  /\ faults = 1
  /\ now = 0
  /\ \A o \in returned : o.op \in {"reserve", "confirm"}
  /\ \E o1, o2 \in returned :
       /\ o1.op = "confirm" /\ o1.result = "False" /\ ~o1.after_true
       /\ o2.op = "confirm" /\ o2.result = "True"
       /\ o1.reservation_id = 1 /\ o2.reservation_id = 1
  /\ reservation_records[1].status = "CONFIRMED"

\* the three quantities of every stock record
Ledger(inv) ==
  [k \in Keys |-> <<inv[k].available_quantity, inv[k].reserved_quantity,
                    inv[k].total_quantity>>]

\* update_stock_levels(p, w, d) run alone, from read to write
SerialAdjust(inv, p, w, d) ==
  update_inventory_quantities(inv, p, w, inv[<<p, w>>].total_quantity + d,
                              inv[<<p, w>>].available_quantity + d)
SerialAdjustOk(inv, p, w, d) ==
  inv[<<p, w>>].total_quantity + d >= 0 /\ inv[<<p, w>>].available_quantity + d >= 0

\* the ledgers that a successful reserve of q and a successful adjustment
\* leave when one runs after the other, in either order
SerialLedgers(p, q) ==
  LET reserved == update_inventory_for_reservation(InitialInventory, p, q, TRUE)
  IN {Ledger(SerialAdjust(reserved, p, w, d)) :
        <<w, d>> \in {x \in Warehouses \X Deltas :
                        SerialAdjustOk(reserved, p, x[1], x[2])}}
     \cup
     {Ledger(update_inventory_for_reservation(
               SerialAdjust(InitialInventory, p, w, d), p, q, TRUE)) :
        <<w, d>> \in {x \in Warehouses \X Deltas :
           /\ SerialAdjustOk(InitialInventory, p, x[1], x[2])
           /\ update_inventory_for_reservation_ok(
                SerialAdjust(InitialInventory, p, x[1], x[2]), p, q, TRUE)}}

\* one reserve and one update_stock_levels were called, both succeeded,
\* nothing else has run and the store never raised
ReserveAndAdjustDone ==
  /\ faults = 0
  /\ nCalls = 2
  /\ Cardinality(returned) = 2
  /\ \E o \in returned : o.op = "reserve" /\ o.result = "reservation_id"
  /\ \E o \in returned : o.op = "adjust" /\ o.result = "True"
  /\ \A f \in Frames : f.op = "expiry" /\ f.pc \in {"t_created", "t_sleep"}

\* C17: operations on one product's stock records are serialized: after a
\* reserve and a stock adjustment of the same product have run, interleaved
\* or not, the quantities of its records are those that running one after
\* the other, in one of the two orders, leaves.
C17_Serialized ==
  ReserveAndAdjustDone =>
    \E r \in DOMAIN active_reservations :
      Ledger(inventory) \in SerialLedgers("X", active_reservations[r].quantity)

\* the update_stock_level calls that end in the step
Ended ==
  {f \in MoveFrames : /\ CopiesIn(f, moves') < CopiesIn(f, moves)
                      /\ BagCardinality(moves') < BagCardinality(moves)}

\* the delta a movement asks for: a receipt adds its quantity, a shipment
\* of a positive quantity takes it
delta(f) == IF f.movement_type = "receipt" THEN f.quantity ELSE 0 - f.quantity

\* the call of f ends in the step with an error
Fails(f) ==
  \/ db_errors' > db_errors
  \/ \E r \in responses' :
       /\ r.warehouse_id = f.warehouse_id
       /\ r.movement_type = f.movement_type
       /\ r.quantity = f.quantity
       /\ r.result \in {"ValidationError", "HTTPException:400"}

\* C18: a stock adjustment adds its delta to both the total and the
\* available quantity of the record; when the total or the available
\* quantity would become negative the call fails and the record is left
\* as it was.
C18_AdjustAddsDelta ==
  [][\A f \in Ended :
       (/\ f.found
        /\ f.pc \in {"m_selected", "m_invalidated"}
        /\ \/ f.movement_type = "receipt"
           \/ f.movement_type = "shipment" /\ f.quantity > 0) =>
         LET w == f.warehouse_id
             row == stock_levels[w]
         IN IF \/ row.quantity_on_hand + delta(f) < 0
               \/ row.quantity_available + delta(f) < 0
              THEN stock_levels' = stock_levels /\ Fails(f)
            ELSE \/ stock_levels' = stock_levels /\ Fails(f)
                 \/ /\ stock_levels'[w].quantity_on_hand =
                         row.quantity_on_hand + delta(f)
                    /\ stock_levels'[w].quantity_available =
                         row.quantity_available + delta(f)]_vars

\* the quantities the movement of f would leave, computed as the call
\* computes them from the row it has read but without the clamp of the
\* available quantity
WouldBeNegative(f) ==
  \/ f.read_on_hand + delta(f) < 0
  \/ f.read_available + delta(f) < 0

\* C19: a stock movement whose result would be a negative total or
\* available quantity ends with an error and persists nothing, neither the
\* row nor the movement; the available quantity is not clamped to hide it.
C19_InconsistentNotPersisted ==
  [][\A f \in Ended :
       (/\ f.found
        /\ f.pc \in {"m_selected", "m_invalidated"}
        /\ \/ f.movement_type = "receipt"
           \/ f.movement_type = "shipment" /\ f.quantity > 0
        /\ WouldBeNegative(f)) =>
         /\ stock_levels' = stock_levels
         /\ stock_movements' = stock_movements
         /\ Fails(f)]_vars

\* C20: the status is a function of the available quantity and the
\* reorder point alone: out of stock when nothing is available, else low
\* stock when the available quantity is at most the reorder point, else in
\* stock, whatever the two integers; computing it changes no state.
C20_StatusOf ==
  /\ [](status_call.result # "none" =>
         LET a == status_call.available_quantity
             r == status_call.reorder_point
         IN /\ status_call.result = "out_of_stock" <=> a <= 0
            /\ status_call.result = "low_stock" <=> (a > 0 /\ a <= r)
            /\ status_call.result = "in_stock" <=> (a > 0 /\ a > r))
  /\ [][/\ UNCHANGED <<service_vars, movement_vars>>
        /\ status_call'.available_quantity = status_call.available_quantity
        /\ status_call'.reorder_point = status_call.reorder_point]_vars

\* a call with as much available as the reorder point has returned low stock
C20_Witness ==
  /\ status_call.result = "low_stock"
  /\ status_call.available_quantity = status_call.reorder_point

\* the available quantity of the records a call of check_availability is
\* about: 0 for an item or a location that has no record
Available ==
  LET items == {k \in Keys : /\ k[1] = availability_call.product_id
                             /\ \/ availability_call.warehouse_id = "None"
                                \/ k[2] = availability_call.warehouse_id}
  IN SumOver([k \in items |-> inventory[k].available_quantity], items)

Answered == availability_call.result # "none" /\ ~availability_call.raised

Evaluated ==
  {g \in BagToSet(moves') : /\ g.pc = "m_reordered"
                            /\ CopiesIn(g, moves') > CopiesIn(g, moves)}

\* the number of purchase-order requests for a warehouse
Requests(orders, w) ==
  BagCardinality([r \in {x \in BagToSet(orders) : x.warehouse_id = w} |-> orders[r]])

\* C22: a reorder evaluation emits exactly one request for the location
\* when its rule is active and its status, from the available quantity
\* against the reorder point, is low stock or out of stock, and none when
\* it is in stock or has no active rule.
C22_OneRequestPerLowLocation ==
  [][\A g \in Evaluated :
       LET w == g.warehouse_id
           due == /\ w \in DOMAIN ReorderRules
                  /\ ReorderRules[w].is_active
                  /\ determine_inventory_status(g.new_available,
                       ReorderRules[w].reorder_point) # "in_stock"
       IN /\ Requests(purchase_orders', w) =
               Requests(purchase_orders, w) + (IF due THEN 1 ELSE 0)
          /\ \A v \in MoveWarehouses \ {w} :
               Requests(purchase_orders', v) = Requests(purchase_orders, v)]_vars

\* the only call made so far is a reserve_inventory that has returned its
\* id, and the reservation is still held
OnlyAReserveDone ==
  /\ nCalls = 1
  /\ \E o \in returned : o.op = "reserve" /\ o.result = "reservation_id"
  /\ DOMAIN active_reservations # {}

\* C23: a successful reserve is followed by a reorder evaluation of the
\* item: when a reserve has brought the available quantity of a location to
\* or below its reorder point, one reorder request has been emitted for it.
C23_ReserveTriggersReorder ==
  OnlyAReserveDone =>
    \A k \in Keys :
      determine_inventory_status(inventory[k].available_quantity,
                                 inventory[k].reorder_point) # "in_stock"
        => reorders[k] = 1

\* C24: the status written when a reservation is ended by its expiry task
\* is EXPIRED, and the status written when it is ended by a cancel call is
\* CANCELLED.
C24_TerminalTagByOrigin ==
  [][\A f \in Left :
       LET rid == f.reservation_id IN
         (/\ f.pc = "x_released"
          /\ rid \in DOMAIN reservation_records
          /\ reservation_records'[rid].status # reservation_records[rid].status) =>
           /\ f.op = "expiry" => reservation_records'[rid].status = "EXPIRED"
           /\ f.op = "cancel" => reservation_records'[rid].status = "CANCELLED"]_vars

\* C25: an expiry task is pending only for a reservation whose status is
\* PENDING: once a cancel or a confirm has made the reservation terminal
\* its expiry task is gone.
C25_TimerOnlyWhilePending ==
  \A f \in Frames :
    (f.op = "expiry" /\ f.pc \in {"t_created", "t_sleep"}) =>
      /\ f.reservation_id \in DOMAIN reservation_records
      /\ reservation_records[f.reservation_id].status = "PENDING"

\* the response of the call of f that ends with result res
Response(f, res) ==
  [warehouse_id |-> f.warehouse_id, movement_type |-> f.movement_type,
   quantity |-> f.quantity, result |-> res, ordered |-> f.ordered]

\* C26: whether the event is sent or the producer fails, a call that has
\* reached the publication ends with the same result and the same effect on
\* the tables: the updated row and the movement are committed and the
\* StockLevel returned when the row validates, nothing is committed and the
\* validation error raised when it does not; no failure of the producer
\* reaches the caller.
C26_PublishFireAndForget ==
  [][\A f \in Ended :
       (f.pc = "m_invalidated" /\ db_errors' = db_errors) =>
         LET w == f.warehouse_id
             updated_stock == [stock_levels[w] EXCEPT
                                 !.quantity_on_hand = f.updated_on_hand,
                                 !.quantity_available = f.updated_available]
         IN IF StockLevelValid(updated_stock)
              THEN /\ stock_levels' = [stock_levels EXCEPT ![w] = updated_stock]
                   /\ BagCardinality(stock_movements') =
                        BagCardinality(stock_movements) + 1
                   /\ responses' = responses \cup {Response(f, "StockLevel")}
            ELSE /\ UNCHANGED <<stock_levels, stock_movements>>
                 /\ responses' = responses \cup {Response(f, "ValidationError")}]_vars

\* a shipment has been committed and answered although no event was sent
C26_Witness ==
  /\ events = EmptyBag
  /\ stock_levels # InitialStockLevels
  /\ \E r \in responses : r.result = "StockLevel" /\ r.movement_type = "shipment"

\* C27: a reserve creates its reservation record after it has updated the
\* stock records: while the call is running its record exists only once
\* its update of the stock records is done.
C27_MutationBeforeRecord ==
  \A f \in Frames :
    (f.op = "reserve" /\ f.reservation_id \in DOMAIN reservation_records) =>
      f.pc = "r_updated"

\* C28: a reserve of a valid request returns its reservation id or raises
\* InsufficientInventoryError (the check has not passed) or ReservationError
\* (the creation has failed after the check); ValueError is for invalid
\* requests only, and nothing else escapes.
C28_ErrorKinds ==
  \A o \in returned :
    o.op = "reserve" =>
      o.result \in {"reservation_id", "InsufficientInventoryError",
                    "ReservationError", "ValueError:quantity",
                    "ValueError:expiry"}

\* the cancel or confirm call of frame f returns False in the step
ReturnsFalse(f) ==
  /\ f.op \in {"cancel", "confirm"}
  /\ BagCardinality(tasks') < BagCardinality(tasks)
  /\ Outcome(f, "False") \in returned'
  /\ Outcome(f, "True") \notin returned'

\* C29: a cancel or confirm that returns False for a reservation that has
\* not expired has not released or allocated its quantity and has not
\* removed it from the cache: it returns False before its first update,
\* never after it.
C29_FalseHidesNothing ==
  [][\A f \in Left :
       (/\ ReturnsFalse(f)
        /\ f.reservation_id \in DOMAIN reservation_records
        /\ now <= reservation_records[f.reservation_id].expiry_time) =>
         f.pc \notin {"x_released", "c_allocated", "c_status"}]_vars

\* C30: a reservation that is in the cache, and that no confirm or cancel
\* has been called on, still has its expiry task: the task never ends
\* leaving it there, whatever the time at which it first ran (with no
\* expiry task and no call it would stay in the cache for ever).
C30_ExpiryTaskExpires ==
  \A r \in DOMAIN active_reservations :
    (faults = 0 /\ ~CalledOn(r)) =>
      \E f \in Frames : f.op = "expiry" /\ f.reservation_id = r

\* C31: a shipment, damage or expiry movement of more than the quantity on
\* hand of the row is rejected with the insufficient-stock error (400), and
\* the row, the movements and the events are left as they were; the call
\* may also end with an error of the database, which leaves them as well.
C31_InsufficientStockRejected ==
  [][\A f \in Ended :
       (/\ f.found
        /\ f.movement_type \in {"shipment", "damage", "expiry"}
        /\ f.quantity > stock_levels[f.warehouse_id].quantity_on_hand) =>
         /\ \/ responses' = responses \cup {Response(f, "HTTPException:400")}
            \/ db_errors' > db_errors
         /\ UNCHANGED <<stock_levels, stock_movements, events>>]_vars

\* C32: whatever movements have run, of any type and of a positive or a
\* negative quantity, every row of stock_levels has a quantity available
\* that is at least 0 and at most the quantity on hand.
C32_PersistedLevelsInRange ==
  \A w \in DOMAIN stock_levels :
    /\ 0 <= stock_levels[w].quantity_available
    /\ stock_levels[w].quantity_available <= stock_levels[w].quantity_on_hand

\* a movement of a negative quantity is committed and another one has been
\* refused by the validation of the row it would have left
C32_Witness ==
  /\ \E m \in BagToSet(stock_movements) : m.quantity < 0
  /\ \E r \in responses : r.result = "ValidationError"
  /\ moves = EmptyBag

\* C33: a stock_updated event and a purchase-order request are emitted
\* only for a movement whose transaction commits: a call that ends without
\* its movement committed has published no event and has made no request.
C33_EmittedOnlyWhenCommitted ==
  [][\A f \in Ended :
       stock_movements' = stock_movements =>
         /\ events' = events
         /\ ~f.ordered]_vars

\* C35: the exclusion of a movement covers the read-modify-write of the
\* row only: the call that publishes the event or makes the purchase-order
\* request in a step does not hold the row's lock (its transaction is not
\* open on an updated row) when it does so.
C35_PublishOutsideExclusion ==
  [][\A f \in MoveFrames :
       (/\ CopiesIn(f, moves') < CopiesIn(f, moves)
        /\ \/ events' # events
           \/ purchase_orders' # purchase_orders) =>
         ~RowLocked(f.warehouse_id)]_vars

\* the product a coroutine works on: the product it was called with, or
\* the product of the reservation it names
ProductOf(f) ==
  IF f.op \in {"reserve", "adjust"} THEN f.product_id
  ELSE IF f.reservation_id \in DOMAIN reservation_records
    THEN reservation_records[f.reservation_id].product_id
  ELSE "-"

\* the stock records of product p
RecordsOf(inv, p) == [w \in Warehouses |-> inv[<<p, w>>]]

\* the reservations of product p among res
ReservationsOf(res, p) ==
  [r \in {x \in DOMAIN res : res[x].product_id = p} |-> res[r]]

\* C34: a step of reserve, confirm, cancel, expiry or adjust on one product
\* leaves the stock records of every other product, and the reservations
\* of every other product (records and cache entries), unchanged.
C34_OtherItemsUntouched ==
  [][\A p \in ItemProducts :
       (\A f \in Left \cup Started : ProductOf(f) # p) =>
         /\ RecordsOf(inventory', p) = RecordsOf(inventory, p)
         /\ ReservationsOf(reservation_records', p) =
              ReservationsOf(reservation_records, p)
         /\ ReservationsOf(active_reservations', p) =
              ReservationsOf(active_reservations, p)]_vars

\* a reservation of X has been cancelled or confirmed, and its stock moved,
\* while a reservation of Y is pending in the cache with its unit reserved
C34_Witness ==
  \E r1, r2 \in DOMAIN reservation_records :
    /\ reservation_records[r1].product_id = "X"
    /\ reservation_records[r1].status # "PENDING"
    /\ r1 \notin DOMAIN active_reservations
    /\ reservation_records[r2].product_id = "Y"
    /\ reservation_records[r2].status = "PENDING"
    /\ r2 \in DOMAIN active_reservations
    /\ TotalReserved(inventory, "Y") = 1
    /\ TotalReserved(inventory, "X") = 0

====
